---- MODULE Spec2Model ----
(***************************************************************************)
(* Model of src/sprsext.rs: diags(diags, offsets, shape) builds a sparse   *)
(* matrix from K diagonal bands.  The call is modelled as a state machine  *)
(* whose steps are the iterations of the loop over offsets (one step per   *)
(* offset: numel_and_indices, row, slice selection, the add_triplet loop)  *)
(* followed by the conversion mat.to_csr().  A panic (arithmetic overflow  *)
(* with overflow checks, an out-of-bounds row or slice, a failed assertion *)
(* of add_triplet) ends the call without a matrix.                         *)
(*                                                                         *)
(* Indices (rows, columns, positions in a band) are 0-based as in the      *)
(* source; TLA+ sequences are 1-based, hence the "+ 1" where a sequence is *)
(* indexed.                                                                *)
(***************************************************************************)
EXTENDS Integers, Sequences, FiniteSets

\* ---------------------------------------------------------------- bounds

\* rows, cols and the band length range over 0..MaxDim, offsets over
\* -MaxDim..MaxDim (so that offsets equal to and beyond the shape occur).
MaxDim == 3

\* at most MaxK offsets per call; a call with MaxK offsets is explored with
\* one band per offset and bands of MaxDim elements only (see BandTables)
MaxK == 3

\* ---------------------------------------------------------------- scalars

\* usize arithmetic wraps modulo 2^w when overflow checks are off; the model
\* keeps a 16-bit word, far above every dimension it uses.
UsizeModulus == 65536

Min(a, b) == IF a <= b THEN a ELSE b

Max(a, b) == IF a >= b THEN a ELSE b

RECURSIVE Pow2(_)
Pow2(e) == IF e = 0 THEN 1 ELSE 2 * Pow2(e - 1)

RECURSIVE Log2(_)
Log2(x) == IF x <= 1 THEN 0 ELSE 1 + Log2(x \div 2)

\* The element type T is a floating-point type (T: NdFloat).  The model
\* keeps a binary float with a 2-bit significand over the non-negative
\* integers: the representable values are 0, 1, 2, 3, 4, 6, 8, 12, 16, 24,
\* ...  FRound rounds to nearest, ties to the even significand.
FRound(x) ==
    IF x <= 3 THEN x
    ELSE LET e == Log2(x)
             s == Pow2(e - 1)
             lo == 2 * s
             mid == 3 * s
             hi == 4 * s
         IN IF 2 * x <= lo + mid THEN lo
            ELSE IF 2 * x < mid + hi THEN mid
            ELSE hi

\* T's addition: the exact sum, rounded.
FAdd(a, b) == FRound(a + b)

\* The t-th positive representable value (t >= 0): 1, 2, 3, 4, 6, 8, 12, ...
Representable(t) ==
    IF t = 0 THEN 1
    ELSE IF t % 2 = 1 THEN Pow2((t + 1) \div 2)
    ELSE 3 * Pow2((t - 2) \div 2)

\* ---------------------------------------------------------------- state

VARIABLES
    diags_view,       \* the bands: a table of K rows, each of the same length
    offsets,          \* the offsets, one per band
    shape,            \* <<rows, cols>>
    overflow_checks,  \* the build: TRUE panics on usize overflow, FALSE wraps
    pc,               \* "loop" | "done" | "panic"
    k,                \* number of offsets the loop has gone through
    mat,              \* the triplet accumulator: sequence of <<row, col, value>>
    csr,              \* the returned matrix, once pc = "done"
    panic             \* where the call panicked, "none" otherwise

vars == <<diags_view, offsets, shape, overflow_checks, pc, k, mat, csr, panic>>

\* A matrix is the function from its stored coordinates to their values; a
\* coordinate outside the domain is a (structural) zero.
EmptyMatrix == [rc \in {} |-> 0]

\* ---------------------------------------------------------------- inputs

\* The K x L table whose entries are pairwise distinct representable values,
\* laid out column by column (the values of a column are neighbours, so that
\* their sums round).
BandTable(K, L) ==
    [b \in 1..K |-> [m \in 1..L |-> Representable((m - 1) * K + (b - 1))]]

Dims == 0..MaxDim

Offsets == (0 - MaxDim)..MaxDim

OffsetLists == UNION {[1..len -> Offsets] : len \in 0..MaxK}

\* The tables a call with the offsets offs is explored with: one band per
\* offset, or no band at all (then row(k) is out of bounds), of every length
\* in Dims; for the longest lists, one band per offset of MaxDim elements.
BandTables(offs) ==
    IF Len(offs) < MaxK
    THEN {BandTable(K, L) : K \in {0, Len(offs)}, L \in Dims}
    ELSE {BandTable(Len(offs), MaxDim)}

\* ---------------------------------------------------------------- diags

\* usize subtraction a - b: panics under overflow checks, wraps otherwise.
USub(a, b, oc) ==
    IF a >= b THEN [ok |-> TRUE, v |-> a - b]
    ELSE IF oc THEN [ok |-> FALSE, v |-> 0]
    ELSE [ok |-> TRUE, v |-> a - b + UsizeModulus]

\* Variant: the origin transposed (i taken for a non-negative offset).
numel_and_indices_transposed(offset, rows, cols, oc) ==
    LET i == IF offset < 0 THEN 0 ELSE offset
        j == IF offset < 0 THEN 0 - offset ELSE 0
        ri == USub(rows, i, oc)
        cj == USub(cols, j, oc)
    IN [ok |-> ri.ok /\ cj.ok, n |-> Min(ri.v, cj.v), i |-> i, j |-> j]

\* The closure numel_and_indices: the element count n of the diagonal and
\* its first coordinate (i, j).
numel_and_indices(offset, rows, cols, oc) ==
    LET i == IF offset < 0 THEN 0 - offset ELSE 0
        j == IF offset < 0 THEN 0 ELSE offset
        ri == USub(rows, i, oc)
        cj == USub(cols, j, oc)
    IN [ok |-> ri.ok /\ cj.ok, n |-> Min(ri.v, cj.v), i |-> i, j |-> j]

\* Variant: row(0) whatever k.
band_row_first(dv, kk) ==
    IF Len(dv) >= 1 THEN [ok |-> TRUE, row |-> dv[1]]
    ELSE [ok |-> FALSE, row |-> <<>>]

\* diags_view.row(k): panics when the table has no row k.
band_row(dv, kk) ==
    IF kk < Len(dv) THEN [ok |-> TRUE, row |-> dv[kk + 1]]
    ELSE [ok |-> FALSE, row |-> <<>>]

\* row_view.slice(s![..n]): the first n elements; panics when n exceeds the
\* length of the row.
row_head(row, n) ==
    IF n <= Len(row) THEN [ok |-> TRUE, diag |-> SubSeq(row, 1, n)]
    ELSE [ok |-> FALSE, diag |-> <<>>]

\* row_view.slice(s![-(n as isize)..]): the last n elements; -0 is 0, so
\* n = 0 selects the whole row; panics when n exceeds the length of the row.
row_tail(row, n) ==
    IF n = 0 THEN [ok |-> TRUE, diag |-> row]
    ELSE IF n <= Len(row)
    THEN [ok |-> TRUE, diag |-> SubSeq(row, Len(row) - n + 1, Len(row))]
    ELSE [ok |-> FALSE, diag |-> <<>>]

\* Variants of the match: a single arm, or the sign alone.
select_diag_always_head(row, n, offset, rows, cols) == row_head(row, n)

select_diag_always_tail(row, n, offset, rows, cols) == row_tail(row, n)

select_diag_by_sign_only(row, n, offset, rows, cols) ==
    IF offset < 0 THEN row_head(row, n) ELSE row_tail(row, n)

\* The match on (offset < 0, rows >= cols) that picks the head or the tail.
select_diag(row, n, offset, rows, cols) ==
    IF offset < 0 /\ rows >= cols THEN row_head(row, n)
    ELSE IF offset < 0 /\ ~(rows >= cols) THEN row_tail(row, n)
    ELSE IF ~(offset < 0) /\ rows >= cols THEN row_tail(row, n)
    ELSE row_head(row, n)

\* Variants: the loop index left out of the coordinate; row and column swapped.
triplet_at_origin(l, i, j, diag) == <<i, j, diag[l + 1]>>

triplet_swapped(l, i, j, diag) == <<l + j, l + i, diag[l + 1]>>

\* The triplet the loop body passes to add_triplet for index l.
triplet(l, i, j, diag) == <<l + i, l + j, diag[l + 1]>>

\* add_triplet asserts row < rows and col < cols before it stores anything.
add_triplet_accepts(row, col, rows, cols) == row < rows /\ col < cols

\* Variant: the loop stops one element early.
placed_one_short(n, i, j, rows, cols) == IF n = 0 THEN 0 ELSE n - 1

\* for l in 0..n { mat.add_triplet(..) }: the number of triplets stored, n
\* unless an assertion of add_triplet fails first.
placed(n, i, j, rows, cols) ==
    LET bad == {l \in 0..(n - 1) : ~add_triplet_accepts(l + i, l + j, rows, cols)}
    IN IF bad = {} THEN n
       ELSE CHOOSE l \in bad : \A l2 \in bad : l <= l2

\* One iteration of "for (k, &offset) in offsets.iter().enumerate()": the
\* accumulator after it, and whether (and where) it panicked.
iteration(dv, offs, sh, oc, kk, m) ==
    LET offset == offs[kk + 1]
        rows == sh[1]
        cols == sh[2]
        ni == numel_and_indices(offset, rows, cols, oc)
        rv == band_row(dv, kk)
        sel == select_diag(rv.row, ni.n, offset, rows, cols)
        cnt == placed(ni.n, ni.i, ni.j, rows, cols)
        pushed == [l \in 1..cnt |-> triplet(l - 1, ni.i, ni.j, sel.diag)]
    IN IF ~ni.ok THEN [panic |-> "overflow", mat |-> m]
       ELSE IF ~rv.ok THEN [panic |-> "row", mat |-> m]
       ELSE IF ~sel.ok THEN [panic |-> "slice", mat |-> m]
       ELSE IF cnt < ni.n THEN [panic |-> "add_triplet", mat |-> m \o pushed]
       ELSE [panic |-> "none", mat |-> m \o pushed]

RECURSIVE csr_fold(_, _, _)
csr_fold(m, t, acc) ==
    IF t > Len(m) THEN acc
    ELSE LET rc == <<m[t][1], m[t][2]>>
             v == m[t][3]
         IN csr_fold(m, t + 1,
                [x \in DOMAIN acc \cup {rc} |->
                    IF x = rc THEN (IF rc \in DOMAIN acc THEN FAdd(acc[rc], v) ELSE v)
                    ELSE acc[x]])

\* mat.to_csr(): one stored entry per coordinate; the values of triplets
\* that share a coordinate are added in the order they were stored.
to_csr(m) == csr_fold(m, 1, EmptyMatrix)

RECURSIVE diags_from(_, _, _, _, _, _)
diags_from(dv, offs, sh, oc, kk, m) ==
    IF kk = Len(offs) THEN [panic |-> "none", mat |-> m, csr |-> to_csr(m)]
    ELSE LET r == iteration(dv, offs, sh, oc, kk, m)
         IN IF r.panic # "none"
            THEN [panic |-> r.panic, mat |-> r.mat, csr |-> EmptyMatrix]
            ELSE diags_from(dv, offs, sh, oc, kk + 1, r.mat)

\* The whole call as a function of its arguments (and of the build).
diags(dv, offs, sh, oc) == diags_from(dv, offs, sh, oc, 0, <<>>)

\* ---------------------------------------------------------------- machine

\* The state on entry to the loop: mat = TriMat::new(shape).
Init ==
    /\ offsets \in OffsetLists
    /\ diags_view \in BandTables(offsets)
    /\ shape \in Dims \X Dims
    /\ overflow_checks \in BOOLEAN
    /\ pc = "loop"
    /\ k = 0
    /\ mat = <<>>
    /\ csr = EmptyMatrix
    /\ panic = "none"

\* An iteration of the loop that runs to its end.
Iterate ==
    /\ pc = "loop"
    /\ k < Len(offsets)
    /\ LET r == iteration(diags_view, offsets, shape, overflow_checks, k, mat)
       IN /\ r.panic = "none"
          /\ mat' = r.mat
    /\ k' = k + 1
    /\ UNCHANGED <<diags_view, offsets, shape, overflow_checks, pc, csr, panic>>

\* An iteration that panics: the call unwinds, no matrix is returned.
IteratePanic ==
    /\ pc = "loop"
    /\ k < Len(offsets)
    /\ LET r == iteration(diags_view, offsets, shape, overflow_checks, k, mat)
       IN /\ r.panic # "none"
          /\ mat' = r.mat
          /\ panic' = r.panic
    /\ pc' = "panic"
    /\ UNCHANGED <<diags_view, offsets, shape, overflow_checks, k, csr>>

\* The loop is over: return mat.to_csr().
Return ==
    /\ pc = "loop"
    /\ k = Len(offsets)
    /\ csr' = to_csr(mat)
    /\ pc' = "done"
    /\ UNCHANGED <<diags_view, offsets, shape, overflow_checks, k, mat, panic>>

Next == Iterate \/ IteratePanic \/ Return

Spec == Init /\ [][Next]_vars

\* ---------------------------------------------------------------- claims

Rows == shape[1]

Cols == shape[2]

NumBands == Len(diags_view)

BandLen == IF Len(diags_view) = 0 THEN 0 ELSE Len(diags_view[1])

\* The element count and origin of offset o as the specification states
\* them, over the integers.
ExpI(o) == Max(0, 0 - o)

ExpJ(o) == Max(0, o)

ExpN(o) == Min(Rows - ExpI(o), Cols - ExpJ(o))

\* A valid input: one band per offset, and every offset places between 1
\* and BandLen elements.
ValidInput ==
    /\ Len(offsets) = NumBands
    /\ \A q \in 1..Len(offsets) : 1 <= ExpN(offsets[q]) /\ ExpN(offsets[q]) <= BandLen

\* The offsets 1..q are valid and have a band each.
PrefixValid(q) ==
    \A p \in 1..q : p <= NumBands /\ 1 <= ExpN(offsets[p]) /\ ExpN(offsets[p]) <= BandLen

DistinctOffsets ==
    \A p, q \in 1..Len(offsets) : p # q => offsets[p] # offsets[q]

TakesFirst(o) == (o < 0 /\ Rows >= Cols) \/ (o >= 0 /\ Rows < Cols)

TakesLast(o) == (o < 0 /\ Rows < Cols) \/ (o >= 0 /\ Rows >= Cols)

\* The slice of band q the specification's table selects.
ExpSlice(q) ==
    LET o == offsets[q]
        n == ExpN(o)
        band == diags_view[q]
    IN [l \in 1..n |-> IF TakesFirst(o) THEN band[l] ELSE band[BandLen - n + l]]

ExpTriplets(q) ==
    LET o == offsets[q]
    IN [l \in 1..ExpN(o) |-> <<(l - 1) + ExpI(o), (l - 1) + ExpJ(o), ExpSlice(q)[l]>>]

RECURSIVE ExpMat(_)
ExpMat(q) == IF q = 0 THEN <<>> ELSE ExpMat(q - 1) \o ExpTriplets(q)

RECURSIVE SumN(_)
SumN(q) == IF q = 0 THEN 0 ELSE SumN(q - 1) + ExpN(offsets[q])

Coords(m) == {<<m[t][1], m[t][2]>> : t \in 1..Len(m)}

\* The triplets stored for offset q: positions SumN(q-1)+1 .. SumN(q) of mat.
Segment(q) == [l \in 1..ExpN(offsets[q]) |-> mat[SumN(q - 1) + l]]

Transpose(M) == [rc \in {<<x[2], x[1]>> : x \in DOMAIN M} |-> M[<<rc[2], rc[1]>>]]

Negated(offs) == [q \in 1..Len(offs) |-> 0 - offs[q]]

Permutations(n) == {p \in [1..n -> 1..n] : \A a, b \in 1..n : a # b => p[a] # p[b]}

Permuted(s, p) == [q \in 1..Len(s) |-> s[p[q]]]

\* C1: on a valid input the call does not panic, the triplets stored for
\* each offset are exactly (l+i, l+j, slice[l]) for l = 0..n-1, in the order
\* of the offsets, and the returned matrix stores nothing at a coordinate no
\* offset wrote.
C1_Placement ==
    ValidInput =>
        /\ pc # "panic"
        /\ mat = ExpMat(k)
        /\ pc = "done" => DOMAIN csr = Coords(ExpMat(Len(offsets)))

\* A tall shape with three sub/main diagonals, returned.
C1_Witness ==
    /\ pc = "done"
    /\ ValidInput
    /\ shape = <<3, 2>>
    /\ offsets = <<-2, -1, 0>>

\* C2: the values stored for an offset with count n are the first n
\* elements of its band when (o < 0 and rows >= cols) or (o >= 0 and
\* rows < cols), and the last n when (o < 0 and rows < cols) or (o >= 0 and
\* rows >= cols).
C2_SliceRule ==
    \A q \in 1..k :
        PrefixValid(q) =>
            LET o == offsets[q]
                n == ExpN(o)
                band == diags_view[q]
                vals == [l \in 1..n |-> Segment(q)[l][3]]
            IN /\ TakesFirst(o) => vals = SubSeq(band, 1, n)
               /\ TakesLast(o) => vals = SubSeq(band, BandLen - n + 1, BandLen)

\* A wide shape where a negative and a positive offset each take fewer
\* elements than the band holds.
C2_Witness ==
    /\ pc = "done"
    /\ ValidInput
    /\ Rows < Cols
    /\ \E q \in 1..k : offsets[q] < 0 /\ ExpN(offsets[q]) < BandLen
    /\ \E q \in 1..k : offsets[q] > 0 /\ ExpN(offsets[q]) < BandLen

\* C3 (as claimed): when some offset has n <= 0 the call is rejected and
\* returns no matrix.
C3_InvalidOffsetRejected ==
    (\E q \in 1..Len(offsets) : ExpN(offsets[q]) <= 0) => pc # "done"

\* C4 (as claimed): when some band is shorter than the n its offset needs
\* (the input being valid otherwise), the failure is detected before any
\* triplet is added: the accumulator stays empty and no matrix is returned.
C4_BandTooShortBeforeAnyTriplet ==
    ( /\ Len(offsets) = NumBands
      /\ \A q \in 1..Len(offsets) : 1 <= ExpN(offsets[q])
      /\ \E q \in 1..Len(offsets) : ExpN(offsets[q]) > BandLen )
    => (mat = <<>> /\ pc # "done")

\* The result of the call with the shape swapped and every offset negated is
\* the transpose of the returned matrix.
TransposedCallAgrees ==
    LET r == diags(diags_view, Negated(offsets), <<Cols, Rows>>, overflow_checks)
    IN r.panic = "none" /\ r.csr = Transpose(csr)

\* C5 (as claimed): orientation symmetry for every valid input.
C5_OrientationSymmetry ==
    (pc = "done" /\ ValidInput) => TransposedCallAgrees

\* Offset q selects the same elements in both orientations: it is nonzero
\* and the shape is not square, or it is 0 and the shape is square, or its
\* band has exactly n elements.
OrientationNeutral(q) ==
    LET o == offsets[q]
    IN \/ Rows # Cols /\ o # 0
       \/ Rows = Cols /\ o = 0
       \/ ExpN(o) = BandLen

\* C5 (amended): orientation symmetry for every valid input in which each
\* offset is nonzero with rows # cols, or 0 with rows = cols, or has a band
\* of exactly n elements.
C5_OrientationSymmetryAmended ==
    (pc = "done" /\ ValidInput /\ \A q \in 1..Len(offsets) : OrientationNeutral(q))
    => TransposedCallAgrees

\* A wide shape with nonzero offsets and bands longer than n, returned.
C5_Witness ==
    /\ pc = "done"
    /\ ValidInput
    /\ shape = <<2, 3>>
    /\ BandLen = 3
    /\ offsets = <<-1, 1, 2>>

CountAndUniqueness ==
    /\ Cardinality(DOMAIN csr) = SumN(Len(offsets))
    /\ Len(mat) = SumN(Len(offsets))
    /\ \A t, u \in 1..Len(mat) :
           t # u => <<mat[t][1], mat[t][2]>> # <<mat[u][1], mat[u][2]>>

\* C6 (as claimed): for every valid input the matrix stores sum(n_k) entries
\* and no two triplets share a coordinate.
C6_CountAndUniqueness ==
    (pc = "done" /\ ValidInput) => CountAndUniqueness

\* C6 (amended): for every valid input with pairwise distinct offsets the
\* matrix stores sum(n_k) entries and no two triplets share a coordinate.
C6_CountAndUniquenessAmended ==
    (pc = "done" /\ ValidInput /\ DistinctOffsets) => CountAndUniqueness

\* Three distinct offsets placing seven elements in all.
C6_Witness ==
    /\ pc = "done"
    /\ ValidInput
    /\ DistinctOffsets
    /\ Len(offsets) = 3
    /\ SumN(3) = 7

\* C7: every triplet a step stores lies inside the shape and on the
\* diagonal of the offset being processed, and every entry of a returned
\* matrix lies inside the shape and on a diagonal named in offsets.
C7_InShapeOnDiagonal ==
    [][ /\ \A t \in (Len(mat) + 1)..Len(mat') :
               /\ 0 <= mat'[t][1] /\ mat'[t][1] < Rows
               /\ 0 <= mat'[t][2] /\ mat'[t][2] < Cols
               /\ mat'[t][2] - mat'[t][1] = offsets[k + 1]
        /\ pc' = "done" =>
               \A rc \in DOMAIN csr' :
                   /\ 0 <= rc[1] /\ rc[1] < Rows
                   /\ 0 <= rc[2] /\ rc[2] < Cols
                   /\ \E q \in 1..Len(offsets) : rc[2] - rc[1] = offsets[q]
      ]_vars

\* A returned matrix with entries on two of the three diagonals named.
C7_Witness ==
    /\ pc = "done"
    /\ shape = <<2, 3>>
    /\ offsets = <<-1, 2, 3>>
    /\ Cardinality(DOMAIN csr) = 2

\* The call on the offsets and bands permuted by p.
PermutedCall(p) ==
    diags(Permuted(diags_view, p), Permuted(offsets, p), shape, overflow_checks)

OrderIndependent ==
    \A p \in Permutations(Len(offsets)) :
        PermutedCall(p).panic = "none" /\ PermutedCall(p).csr = csr

\* C8 (as claimed): for every valid input, permuting offsets and bands
\* together leaves the returned matrix unchanged.
C8_OrderIndependent ==
    (pc = "done" /\ ValidInput) => OrderIndependent

\* C8 (amended): for every valid input with pairwise distinct offsets,
\* permuting offsets and bands together leaves the returned matrix unchanged.
C8_OrderIndependentAmended ==
    (pc = "done" /\ ValidInput /\ DistinctOffsets) => OrderIndependent

\* Three distinct offsets on a square shape, returned.
C8_Witness ==
    /\ pc = "done"
    /\ ValidInput
    /\ DistinctOffsets
    /\ shape = <<3, 3>>
    /\ offsets = <<1, -1, 0>>

\* C9: offsets = [0], one band of length r, shape (r, r): the result has
\* band[l] at (l, l) for l = 0..r-1 and nothing elsewhere.
C9_MainDiagonal ==
    (offsets = <<0>> /\ NumBands = 1 /\ Rows = Cols /\ BandLen = Rows) =>
        /\ pc # "panic"
        /\ pc = "done" =>
               csr = [rc \in {<<l, l>> : l \in 0..(Rows - 1)} |-> diags_view[1][rc[1] + 1]]

\* The 3 x 3 main diagonal, returned.
C9_Witness ==
    /\ pc = "done"
    /\ offsets = <<0>>
    /\ NumBands = 1
    /\ shape = <<3, 3>>
    /\ BandLen = 3

\* C10: when every band has exactly min(rows, cols) elements, the value
\* stored at (r, c) for band q is band[c] if rows >= cols and band[r] if
\* rows < cols, whatever the sign of the offset.
C10_IndexAlignment ==
    BandLen = Min(Rows, Cols) =>
        \A q \in 1..k :
            PrefixValid(q) =>
                \A l \in 1..ExpN(offsets[q]) :
                    LET t == Segment(q)[l]
                    IN /\ t[2] - t[1] = offsets[q]
                       /\ t[3] = IF Rows >= Cols THEN diags_view[q][t[2] + 1]
                                 ELSE diags_view[q][t[1] + 1]

\* A wide shape with bands of min(rows, cols) elements, returned.
C10_Witness ==
    /\ pc = "done"
    /\ ValidInput
    /\ shape = <<2, 3>>
    /\ BandLen = 2
    /\ offsets = <<-1, 1>>

====
